---------------------------- MODULE Spec2Model ----------------------------
(***************************************************************************)
(* A model of the WebSocket RPC exercise: protocol.py (parse_request,      *)
(* RPCError.to_dict, make_response), functions.py (the registry and its    *)
(* three handlers), server.py (handle_connection) and client.py            *)
(* (call_action).                                                          *)
(*                                                                         *)
(* A wire message is a frame holding a sequence of JSON lexemes (tokens);  *)
(* json.loads is a recursive-descent parser over the tokens and json.dumps *)
(* a serializer to tokens, both with the behaviour of CPython's json       *)
(* module (NaN / Infinity / -Infinity accepted and emitted, a repeated key *)
(* keeps its last value, bytes are decoded before parsing).  Interpreter   *)
(* resource limits (recursion depth, integer digit limit, memory) are not  *)
(* modelled: the values of the model stay below them.                      *)
(***************************************************************************)
EXTENDS Integers, Sequences, FiniteSets

(***************************************************************************)
(* Bounds of the model.                                                    *)
(***************************************************************************)
\* Longest token sequence enumerated exhaustively as a raw input.
MaxRawLen == 3
\* Most messages a peer puts on one connection.
MaxMsgs == 2

(***************************************************************************)
(* Python / JSON values.  Every value has the same record shape:           *)
(*   t  the type: "null" (None), "bool", "int", "float", "str", "list",    *)
(*      "dict"                                                             *)
(*   s  a str's text; for an int "huge" / "-huge" when its magnitude is    *)
(*      beyond the range of a double; for a float "nan", "inf", "-inf"     *)
(*   n  an int's value, a bool's 0/1, a finite float's value in quarters   *)
(*   m  the items of a list (pairs <<"", v>>) or of a dict (pairs          *)
(*      <<key, v>>, keys unique, in insertion order)                       *)
(***************************************************************************)
V(t, s, n, m) == [t |-> t, s |-> s, n |-> n, m |-> m]
NoneV == V("null", "", 0, <<>>)
BoolV(b) == V("bool", "", IF b THEN 1 ELSE 0, <<>>)
IntV(i) == V("int", "", i, <<>>)
HugeV == V("int", "huge", 0, <<>>)
FloatV(q) == V("float", "", q, <<>>)
NanV == V("float", "nan", 0, <<>>)
InfV == V("float", "inf", 0, <<>>)
NegInfV == V("float", "-inf", 0, <<>>)
StrV(s) == V("str", s, 0, <<>>)
ListV(m) == V("list", "", 0, m)
DictV(m) == V("dict", "", 0, m)
EmptyDict == DictV(<<>>)

\* isinstance(v, dict), isinstance(v, str)
IsDict(v) == v.t = "dict"
IsStr(v) == v.t = "str"

\* Python truthiness (bool(v)).
Truthy(v) ==
    CASE v.t = "null" -> FALSE
      [] v.t = "bool" -> v.n = 1
      [] v.t = "int" -> v.s # "" \/ v.n # 0
      [] v.t = "float" -> v.s # "" \/ v.n # 0
      [] v.t = "str" -> v.s # ""
      [] OTHER -> v.m # <<>>

\* key in d
DictHas(m, k) == \E i \in 1..Len(m) : m[i][1] = k

\* d.get(k, default)
DictGet(m, k, default) ==
    IF DictHas(m, k)
    THEN m[CHOOSE i \in 1..Len(m) : m[i][1] = k][2]
    ELSE default

\* d[k] = v : a key already present keeps its place and takes the new value.
DictSet(m, k, v) ==
    IF DictHas(m, k)
    THEN [i \in 1..Len(m) |-> IF m[i][1] = k THEN <<k, v>> ELSE m[i]]
    ELSE Append(m, <<k, v>>)

DictKeys(m) == {m[i][1] : i \in 1..Len(m)}

(***************************************************************************)
(* Tokens: the lexemes of a JSON text.  k is the kind: one of the six      *)
(* punctuators, "str", "int", "float", "lit" (a bare word) or "bad" (a     *)
(* character no JSON text can hold).                                       *)
(***************************************************************************)
Tok(k, s, n) == [k |-> k, s |-> s, n |-> n]
P(c) == Tok(c, "", 0)
TStr(s) == Tok("str", s, 0)
TInt(i) == Tok("int", "", i)
THuge == Tok("int", "huge", 0)
TFloat(q) == Tok("float", "", q)
TLit(w) == Tok("lit", w, 0)
TBad == Tok("bad", "", 0)

(***************************************************************************)
(* json.loads on a str: CPython's scanner.  A scan returns                 *)
(* [ok, val, rest]: whether a value was read, the value, the tokens left.  *)
(***************************************************************************)
Good(v, rest) == [ok |-> TRUE, val |-> v, rest |-> rest]
Bad == [ok |-> FALSE, val |-> NoneV, rest |-> <<>>]

\* The bare words the scanner accepts, with the values they decode to.
LitWords == {"true", "false", "null", "NaN", "Infinity", "-Infinity"}
LitValue(w) ==
    CASE w = "true" -> BoolV(TRUE)
      [] w = "false" -> BoolV(FALSE)
      [] w = "null" -> NoneV
      [] w = "NaN" -> NanV
      [] w = "Infinity" -> InfV
      [] OTHER -> NegInfV

RECURSIVE scan_value(_), scan_members(_, _), scan_elems(_, _)
scan_value(toks) ==
    IF toks = <<>> THEN Bad
    ELSE LET h == Head(toks)
             r == Tail(toks)
         IN  CASE h.k = "str" -> Good(StrV(h.s), r)
               [] h.k = "int" -> Good(V("int", h.s, h.n, <<>>), r)
               [] h.k = "float" -> Good(V("float", h.s, h.n, <<>>), r)
               [] h.k = "lit" ->
                    IF h.s \in LitWords THEN Good(LitValue(h.s), r) ELSE Bad
               [] h.k = "{" ->
                    IF r # <<>> /\ Head(r).k = "}"
                    THEN Good(EmptyDict, Tail(r))
                    ELSE scan_members(r, <<>>)
               [] h.k = "[" ->
                    IF r # <<>> /\ Head(r).k = "]"
                    THEN Good(ListV(<<>>), Tail(r))
                    ELSE scan_elems(r, <<>>)
               [] OTHER -> Bad

\* After "{" or ",": a string key, ":", a value, then "," or "}".
scan_members(toks, acc) ==
    IF Len(toks) < 2 \/ toks[1].k # "str" \/ toks[2].k # ":" THEN Bad
    ELSE LET v == scan_value(SubSeq(toks, 3, Len(toks)))
         IN  IF ~v.ok \/ v.rest = <<>> THEN Bad
             ELSE LET acc2 == DictSet(acc, toks[1].s, v.val)
                  IN  CASE Head(v.rest).k = "}" -> Good(DictV(acc2), Tail(v.rest))
                        [] Head(v.rest).k = "," -> scan_members(Tail(v.rest), acc2)
                        [] OTHER -> Bad

\* After "[" or ",": a value, then "," or "]".
scan_elems(toks, acc) ==
    LET v == scan_value(toks)
    IN  IF ~v.ok \/ v.rest = <<>> THEN Bad
        ELSE LET acc2 == Append(acc, <<"", v.val>>)
             IN  CASE Head(v.rest).k = "]" -> Good(ListV(acc2), Tail(v.rest))
                   [] Head(v.rest).k = "," -> scan_elems(Tail(v.rest), acc2)
                   [] OTHER -> Bad

(***************************************************************************)
(* A raw message as the transport delivers it: a text frame (a str), a     *)
(* binary frame whose bytes are UTF-8 (json.loads decodes them first), or  *)
(* a binary frame whose bytes are not UTF-8.                               *)
(***************************************************************************)
TextMsg(toks) == [frame |-> "text", toks |-> toks]
BytesMsg(toks) == [frame |-> "bytes", toks |-> toks]
BadBytesMsg == [frame |-> "bytes_not_utf8", toks |-> <<>>]

\* json.loads(raw): [exc, val]; exc is "" when a value is returned, else
\* the exception class raised.
json_loads(raw) ==
    IF raw.frame = "bytes_not_utf8"
    THEN [exc |-> "UnicodeDecodeError", val |-> NoneV]
    ELSE LET r == scan_value(raw.toks)
         IN  IF r.ok /\ r.rest = <<>>
             THEN [exc |-> "", val |-> r.val]
             ELSE [exc |-> "JSONDecodeError", val |-> NoneV]

(***************************************************************************)
(* json.dumps: the tokens of a value's JSON text.                          *)
(***************************************************************************)
RECURSIVE dumps_value(_), dumps_items(_, _)
dumps_value(v) ==
    CASE v.t = "null" -> <<TLit("null")>>
      [] v.t = "bool" -> <<TLit(IF v.n = 1 THEN "true" ELSE "false")>>
      [] v.t = "int" -> <<Tok("int", v.s, v.n)>>
      [] v.t = "float" ->
           IF v.s = "nan" THEN <<TLit("NaN")>>
           ELSE IF v.s = "inf" THEN <<TLit("Infinity")>>
           ELSE IF v.s = "-inf" THEN <<TLit("-Infinity")>>
           ELSE <<TFloat(v.n)>>
      [] v.t = "str" -> <<TStr(v.s)>>
      [] v.t = "list" -> <<P("[")>> \o dumps_items(v.m, FALSE) \o <<P("]")>>
      [] OTHER -> <<P("{")>> \o dumps_items(v.m, TRUE) \o <<P("}")>>

\* The items of a list or dict, comma separated; a dict's with their keys.
dumps_items(m, keyed) ==
    IF m = <<>> THEN <<>>
    ELSE (IF keyed THEN <<TStr(m[1][1]), P(":")>> ELSE <<>>)
         \o dumps_value(m[1][2])
         \o (IF Len(m) > 1 THEN <<P(",")>> ELSE <<>>)
         \o dumps_items(Tail(m), keyed)

\* json.dumps(obj), sent as a text frame.
json_dumps(v) == TextMsg(dumps_value(v))

(***************************************************************************)
(* protocol.py                                                             *)
(***************************************************************************)
\* RPCError(request_id, code, message)
RPCError(request_id, code, message) ==
    [kind |-> "RPCError", request_id |-> request_id, code |-> code,
     message |-> message, action |-> NoneV, params |-> NoneV]

\* The dict parse_request returns.
Request(request_id, action, params) ==
    [kind |-> "request", request_id |-> request_id, code |-> "",
     message |-> "", action |-> action, params |-> params]

\* An exception that is no RPCError leaving parse_request.
Raised(exc) ==
    [kind |-> "raised", request_id |-> NoneV, code |-> exc,
     message |-> "", action |-> NoneV, params |-> NoneV]

\* parse_params with payload.get("params") in place of
\* payload.get("params", {}): an absent params is None.
parse_params_no_default(payload, request_id, action) ==
    LET params == DictGet(payload.m, "params", NoneV)
    IN  IF ~IsDict(params)
        THEN RPCError(request_id, "invalid_params", "'params' must be a dictionary")
        ELSE Request(request_id, action, params)

\* parse_params reading the key "param": the request always carries the
\* default, an empty dict.
parse_params_wrong_key(payload, request_id, action) ==
    LET params == DictGet(payload.m, "param", EmptyDict)
    IN  IF ~IsDict(params)
        THEN RPCError(request_id, "invalid_params", "'params' must be a dictionary")
        ELSE Request(request_id, action, params)

\* The check of params (protocol.py lines 74-84).
parse_params(payload, request_id, action) ==
    LET params == DictGet(payload.m, "params", EmptyDict)
    IN  IF ~IsDict(params)
        THEN RPCError(request_id, "invalid_params", "'params' must be a dictionary")
        ELSE Request(request_id, action, params)

\* parse_action with `if action is None` as its only check.
parse_action_presence_only(payload) ==
    LET request_id == DictGet(payload.m, "request_id", NoneV)
        action == DictGet(payload.m, "action", NoneV)
    IN  IF action = NoneV
        THEN RPCError(request_id, "invalid_action", "Missing or invalid 'action'")
        ELSE parse_params(payload, request_id, action)

\* The check of action (protocol.py lines 66-72), then of params.
parse_action(payload) ==
    LET request_id == DictGet(payload.m, "request_id", NoneV)
        action == DictGet(payload.m, "action", NoneV)
    IN  IF ~Truthy(action) \/ ~IsStr(action)
        THEN RPCError(request_id, "invalid_action", "Missing or invalid 'action'")
        ELSE parse_params(payload, request_id, action)

\* parse_request without the isinstance(payload, dict) check of line 63.
parse_request_no_object_check(raw) ==
    LET d == json_loads(raw)
    IN  IF d.exc = "JSONDecodeError"
        THEN RPCError(NoneV, "invalid_json", "Payload is not valid JSON")
        ELSE IF d.exc # "" THEN Raised(d.exc)
        ELSE parse_action(d.val)

\* protocol.py lines 38-84
parse_request(raw) ==
    LET d == json_loads(raw)
    IN  IF d.exc = "JSONDecodeError"
        THEN RPCError(NoneV, "invalid_json", "Payload is not valid JSON")
        ELSE IF d.exc # "" THEN Raised(d.exc)
        ELSE IF ~IsDict(d.val)
        THEN RPCError(NoneV, "invalid_payload", "Payload must be a JSON object")
        ELSE parse_action(d.val)


\* to_dict with the error as its bare code instead of an object.
to_dict_flat(e) ==
    DictV(<< <<"request_id", e.request_id>>,
             <<"status", StrV("error")>>,
             <<"error", StrV(e.code)>> >>)

\* RPCError.to_dict()
to_dict(e) ==
    DictV(<< <<"request_id", e.request_id>>,
             <<"status", StrV("error")>>,
             <<"error", DictV(<< <<"code", StrV(e.code)>>,
                                 <<"message", StrV(e.message)>> >>)>> >>)

\* make_response that does not echo the request_id.
make_response_no_id(request_id, status, result) ==
    DictV(<< <<"request_id", NoneV>>,
             <<"status", StrV(status)>>,
             <<(IF status = "ok" THEN "result" ELSE "error"), result>> >>)

\* make_response(request_id, status, result)
make_response(request_id, status, result) ==
    DictV(<< <<"request_id", request_id>>,
             <<"status", StrV(status)>>,
             <<(IF status = "ok" THEN "result" ELSE "error"), result>> >>)

(***************************************************************************)
(* functions.py.  A call returns [exc, val]: exc is "" when val is         *)
(* returned, else the class of the exception raised.                       *)
(***************************************************************************)
Returns(v) == [exc |-> "", val |-> v]
Raises(exc) == [exc |-> exc, val |-> NoneV]

\* isinstance(v, (int, float)); a bool is an int.
IsNumber(v) == v.t \in {"bool", "int", "float"}
IsHuge(v) == v.t = "int" /\ v.s # ""
Sign(v) ==
    IF v.s \in {"huge", "inf"} THEN 1
    ELSE IF v.s \in {"-huge", "-inf"} THEN -1
    ELSE IF v.n > 0 THEN 1 ELSE IF v.n < 0 THEN -1 ELSE 0
SignedHuge(sg) == V("int", IF sg < 0 THEN "-huge" ELSE "huge", 0, <<>>)
SignedInf(sg) == IF sg < 0 THEN NegInfV ELSE InfV
\* float(v) of a bool or int within the range of a double, in quarters.
Quarters(v) == IF v.t = "float" THEN v.n ELSE 4 * v.n

\* a + b on numbers.  Finite floats are exact in quarters.
py_add(a, b) ==
    IF a.t # "float" /\ b.t # "float"
    THEN IF IsHuge(a) /\ IsHuge(b)
         THEN IF Sign(a) = Sign(b) THEN Returns(a) ELSE Returns(IntV(0))
         ELSE IF IsHuge(a) THEN Returns(a)
         ELSE IF IsHuge(b) THEN Returns(b)
         ELSE Returns(IntV(a.n + b.n))
    ELSE IF IsHuge(a) \/ IsHuge(b) THEN Raises("OverflowError")
    ELSE IF a.s = "nan" \/ b.s = "nan" THEN Returns(NanV)
    ELSE IF a.s # "" /\ b.s # ""
         THEN IF a.s = b.s THEN Returns(a) ELSE Returns(NanV)
    ELSE IF a.s # "" THEN Returns(a)
    ELSE IF b.s # "" THEN Returns(b)
    ELSE Returns(FloatV(Quarters(a) + Quarters(b)))

\* a * b on numbers.  The finite floats of the model are multiples of a
\* half, so that a product is exact in quarters.
py_mul(a, b) ==
    IF a.t # "float" /\ b.t # "float"
    THEN IF IsHuge(a) \/ IsHuge(b)
         THEN IF Sign(a) = 0 \/ Sign(b) = 0 THEN Returns(IntV(0))
              ELSE Returns(SignedHuge(Sign(a) * Sign(b)))
         ELSE Returns(IntV(a.n * b.n))
    ELSE IF IsHuge(a) \/ IsHuge(b) THEN Raises("OverflowError")
    ELSE IF a.s = "nan" \/ b.s = "nan" THEN Returns(NanV)
    ELSE IF a.s # "" \/ b.s # ""
         THEN IF Sign(a) = 0 \/ Sign(b) = 0 THEN Returns(NanV)
              ELSE Returns(SignedInf(Sign(a) * Sign(b)))
    ELSE Returns(FloatV((Quarters(a) * Quarters(b)) \div 4))

add_numbers(a, b) ==
    IF ~IsNumber(a) \/ ~IsNumber(b) THEN Raises("TypeError") ELSE py_add(a, b)

multiply_numbers(a, b) ==
    IF ~IsNumber(a) \/ ~IsNumber(b) THEN Raises("TypeError") ELSE py_mul(a, b)

echo(message) ==
    IF ~IsStr(message) THEN Raises("TypeError") ELSE Returns(message)

\* The keys of FUNCTION_REGISTRY.
FUNCTION_REGISTRY == {"add_numbers", "multiply_numbers", "echo"}

\* call_registered for handlers that accept and ignore keywords they do
\* not know (def f(a, b, **kwargs)).
call_registered_extra_ignored(name, params) ==
    CASE name = "add_numbers" ->
           IF ~({"a", "b"} \subseteq DictKeys(params.m)) THEN Raises("TypeError")
           ELSE add_numbers(DictGet(params.m, "a", NoneV), DictGet(params.m, "b", NoneV))
      [] name = "multiply_numbers" ->
           IF ~({"a", "b"} \subseteq DictKeys(params.m)) THEN Raises("TypeError")
           ELSE multiply_numbers(DictGet(params.m, "a", NoneV),
                                 DictGet(params.m, "b", NoneV))
      [] OTHER ->
           IF ~({"message"} \subseteq DictKeys(params.m)) THEN Raises("TypeError")
           ELSE echo(DictGet(params.m, "message", NoneV))

\* call_registered for a registry whose entries for add_numbers and
\* multiply_numbers are exchanged.
call_registered_swapped(name, params) ==
    CASE name = "add_numbers" ->
           IF DictKeys(params.m) # {"a", "b"} THEN Raises("TypeError")
           ELSE multiply_numbers(DictGet(params.m, "a", NoneV),
                                 DictGet(params.m, "b", NoneV))
      [] name = "multiply_numbers" ->
           IF DictKeys(params.m) # {"a", "b"} THEN Raises("TypeError")
           ELSE add_numbers(DictGet(params.m, "a", NoneV), DictGet(params.m, "b", NoneV))
      [] OTHER ->
           IF DictKeys(params.m) # {"message"} THEN Raises("TypeError")
           ELSE echo(DictGet(params.m, "message", NoneV))

\* func(**params) for func = FUNCTION_REGISTRY[name]: the keywords must be
\* exactly the function's parameters, else the call raises TypeError.
call_registered(name, params) ==
    CASE name = "add_numbers" ->
           IF DictKeys(params.m) # {"a", "b"} THEN Raises("TypeError")
           ELSE add_numbers(DictGet(params.m, "a", NoneV), DictGet(params.m, "b", NoneV))
      [] name = "multiply_numbers" ->
           IF DictKeys(params.m) # {"a", "b"} THEN Raises("TypeError")
           ELSE multiply_numbers(DictGet(params.m, "a", NoneV),
                                 DictGet(params.m, "b", NoneV))
      [] OTHER ->
           IF DictKeys(params.m) # {"message"} THEN Raises("TypeError")
           ELSE echo(DictGet(params.m, "message", NoneV))


(***************************************************************************)
(* State.                                                                  *)
(*                                                                         *)
(* The connections (server.py handle_connection, one task each):           *)
(*   transport[c]  "none" before the peer connects, "open", "closed_ok"    *)
(*                 after a closing handshake, "closed_err" after a         *)
(*                 transport failure                                       *)
(*   inbox[c]      the messages the transport holds for the handler task   *)
(*   outbox[c]     the messages the handler task has sent, oldest first    *)
(*   pc[c]         the handler task: "idle" (not started), "recv" (in      *)
(*                 `async for raw in ws`), "dispatch" (holds cur[c]),      *)
(*                 "done" (handle_connection has returned)                 *)
(*   cur[c]        the message being processed                             *)
(*   events[c]     the log records the task has emitted                    *)
(*   closedSends[c] the ws.send calls made after the transport closed      *)
(*   lastCall[c]   the registry function the last dispatch invoked ("" if  *)
(*                 none)                                                   *)
(*   arrived[c]    the messages the transport has received from the peer,  *)
(*                 in their order of arrival                               *)
(* The peers (client.py call_action, or a peer writing frames of its own): *)
(*   cl[c]         "idle", "waiting" (call_action awaits ws.recv),         *)
(*                 "returned", "mismatch" (RuntimeError), "timeout",       *)
(*                 "lost" (ConnectionClosed), "decode_error" and           *)
(*                 "attribute_error" (the message received is no JSON      *)
(*                 object), "peer", "gone"                                 *)
(*   cid[c]        the request_id call_action generated                    *)
(*   cresp[c]      the response call_action returned                       *)
(*   nsent[c]      the messages the peer has sent                          *)
(* The validator on its own (protocol.py parse_request):                   *)
(*   preq          a payload to encode                                     *)
(*   praw          the raw input                                           *)
(*   pres          what parse_request did with it                          *)
(*   pphase        "payload", "encoded", "raw", "decoded", "parsed"        *)
(***************************************************************************)
VARIABLES transport, inbox, outbox, pc, cur, events, closedSends, lastCall,
          arrived, cl, cid, cresp, nsent, preq, praw, pres, pphase

connVars == <<transport, inbox, outbox, pc, cur, events, closedSends, lastCall,
              arrived>>
peerVars == <<cl, cid, cresp, nsent>>
parseVars == <<preq, praw, pres, pphase>>
vars == <<transport, inbox, outbox, pc, cur, events, closedSends, lastCall,
          arrived, cl, cid, cresp, nsent, preq, praw, pres, pphase>>

Conns == {1, 2}
NoMsg == TextMsg(<<>>)
NoResult == Raised("")

\* No connection has been made.
ConnInit ==
    /\ transport = [c \in Conns |-> "none"]
    /\ inbox = [c \in Conns |-> <<>>]
    /\ outbox = [c \in Conns |-> <<>>]
    /\ pc = [c \in Conns |-> "idle"]
    /\ cur = [c \in Conns |-> NoMsg]
    /\ events = [c \in Conns |-> {}]
    /\ closedSends = [c \in Conns |-> 0]
    /\ lastCall = [c \in Conns |-> ""]
    /\ arrived = [c \in Conns |-> <<>>]
    /\ cl = [c \in Conns |-> "idle"]
    /\ cid = [c \in Conns |-> ""]
    /\ cresp = [c \in Conns |-> NoneV]
    /\ nsent = [c \in Conns |-> 0]

(***************************************************************************)
(* The validator on its own: parse_request applied to raw inputs, and to   *)
(* the encodings (json.dumps) of payloads.                                 *)
(***************************************************************************)
\* Sequences over S of length at most n.
SeqsUpTo(S, n) == UNION {[1..k -> S] : k \in 0..n}

\* The tokens of the exhaustively enumerated raw inputs.
TokAlphabet ==
    {P("{"), P("}"), P("["), P("]"), P(","), P(":"),
     TStr("action"), TInt(1), TLit("null"), TLit("NaN"), TBad}

\* A field of a payload: absent (<<>>) or present with a value.
Field(k, opt) == IF opt = <<>> THEN <<>> ELSE << <<k, opt[1]>> >>
Payload(rid, act, par) ==
    DictV(Field("request_id", rid) \o Field("action", act) \o Field("params", par))

RequestIdOpts == {<<>>, <<NoneV>>, <<StrV("r1")>>, <<IntV(7)>>}
ActionOpts ==
    {<<>>, <<NoneV>>, <<StrV("")>>, <<StrV("echo")>>, <<StrV("bogus")>>,
     <<IntV(5)>>, <<BoolV(TRUE)>>, <<ListV(<< <<"", StrV("echo")>> >>)>>}
ParamDicts ==
    {EmptyDict,
     DictV(<< <<"message", StrV("hi")>> >>),
     DictV(<< <<"a", IntV(1)>>, <<"b", FloatV(6)>> >>),
     DictV(<< <<"a", HugeV>>, <<"b", BoolV(FALSE)>> >>),
     DictV(<< <<"x", ListV(<< <<"", IntV(1)>>, <<"", NoneV>>, <<"", StrV("s")>> >>)>>,
              <<"y", DictV(<< <<"k", EmptyDict>> >>)>> >>)}
ParamsOpts ==
    {<<>>, <<NoneV>>, <<StrV("x")>>, <<IntV(3)>>, <<BoolV(FALSE)>>,
     <<ListV(<< <<"", IntV(1)>> >>)>>} \cup {<<d>> : d \in ParamDicts}

\* The payloads encoded: every combination of the fields, and values that
\* are no object.
Payloads ==
    {Payload(r, a, p) : r \in RequestIdOpts, a \in ActionOpts, p \in ParamsOpts}
    \cup {NoneV, IntV(3), FloatV(6), StrV("echo"), BoolV(TRUE), ListV(<<>>),
          ListV(<< <<"", EmptyDict>> >>)}

\* A request call_action builds (client.py lines 49-53).
ClientPayload(request_id, action, params) ==
    DictV(<< <<"request_id", request_id>>, <<"action", action>>,
             <<"params", params>> >>)

\* The valid Requests: request_id a string or null, action a non-empty
\* string, params a mapping of JSON-representable values.
ValidRequestIds == {NoneV, StrV("r1")}
ValidActions == {StrV("echo"), StrV("add_numbers"), StrV("bogus")}
IsValidRequest(v) ==
    \E r \in ValidRequestIds, a \in ValidActions, p \in ParamDicts :
        v = ClientPayload(r, a, p)

\* Texts cut short: a payload's encoding without its last token.
CutShort == {SubSeq(t, 1, Len(t) - 1) : t \in {dumps_value(v) : v \in Payloads}}

RawInputs ==
    {TextMsg(t) : t \in SeqsUpTo(TokAlphabet, MaxRawLen) \cup CutShort}
    \cup {BytesMsg(t) : t \in SeqsUpTo(TokAlphabet, 1)}
    \cup {BadBytesMsg}

ParseInit ==
    /\ ConnInit
    /\ pres = NoResult
    /\ \/ /\ pphase = "raw"
          /\ praw \in RawInputs
          /\ preq = NoneV
       \/ /\ pphase = "payload"
          /\ preq \in Payloads
          /\ praw = NoMsg

\* json.dumps(payload) (client.py line 59)
Encode ==
    /\ pphase = "payload"
    /\ praw' = json_dumps(preq)
    /\ pphase' = "encoded"
    /\ UNCHANGED <<preq, pres, connVars, peerVars>>

\* parse_request(raw) (server.py line 48)
Parse ==
    /\ pphase \in {"raw", "encoded"}
    /\ pres' = parse_request(praw)
    /\ pphase' = IF pphase = "raw" THEN "parsed" ELSE "decoded"
    /\ UNCHANGED <<preq, praw, connVars, peerVars>>

ParseNext == Encode \/ Parse

ParseSpec == ParseInit /\ [][ParseNext]_vars


(***************************************************************************)
(* JSON as RFC 8259 defines it, for the claims that speak of syntactically *)
(* valid JSON: a recognizer of the grammar, apart from json.loads.         *)
(* rfc_value(toks, i) is the index after the value that starts at i, or 0  *)
(* when no value starts there.                                             *)
(***************************************************************************)
RECURSIVE rfc_value(_, _), rfc_members(_, _), rfc_elems(_, _)
rfc_value(toks, i) ==
    IF i > Len(toks) THEN 0
    ELSE CASE toks[i].k \in {"str", "int", "float"} -> i + 1
           [] toks[i].k = "lit" ->
                IF toks[i].s \in {"true", "false", "null"} THEN i + 1 ELSE 0
           [] toks[i].k = "{" ->
                IF i < Len(toks) /\ toks[i + 1].k = "}" THEN i + 2
                ELSE rfc_members(toks, i + 1)
           [] toks[i].k = "[" ->
                IF i < Len(toks) /\ toks[i + 1].k = "]" THEN i + 2
                ELSE rfc_elems(toks, i + 1)
           [] OTHER -> 0

rfc_members(toks, i) ==
    IF i + 1 > Len(toks) \/ toks[i].k # "str" \/ toks[i + 1].k # ":" THEN 0
    ELSE LET j == rfc_value(toks, i + 2)
         IN  IF j = 0 \/ j > Len(toks) THEN 0
             ELSE IF toks[j].k = "}" THEN j + 1
             ELSE IF toks[j].k = "," THEN rfc_members(toks, j + 1)
             ELSE 0

rfc_elems(toks, i) ==
    LET j == rfc_value(toks, i)
    IN  IF j = 0 \/ j > Len(toks) THEN 0
        ELSE IF toks[j].k = "]" THEN j + 1
        ELSE IF toks[j].k = "," THEN rfc_elems(toks, j + 1)
        ELSE 0

\* The raw input is a JSON text.
IsJSONText(raw) ==
    /\ raw.frame # "bytes_not_utf8"
    /\ rfc_value(raw.toks, 1) = Len(raw.toks) + 1

\* parse_request failed with RPCError(request_id, code).
FailedWith(res, request_id, code) ==
    res.kind = "RPCError" /\ res.code = code /\ res.request_id = request_id

(***************************************************************************)
(* C6.  For any raw input that is not syntactically valid JSON,            *)
(* parse_request fails with an RPCError whose code is invalid_json and     *)
(* whose request_id is null: it fails in no other way and returns no       *)
(* request.  Stated for the inputs of parse_request's declared type, a     *)
(* str (a text frame).                                                     *)
(***************************************************************************)
C6_InvalidJsonRejected ==
    (pphase = "parsed" /\ praw.frame = "text" /\ ~IsJSONText(praw))
        => FailedWith(pres, NoneV, "invalid_json")

(***************************************************************************)
(* C7.  For any syntactically valid JSON input whose top-level value is    *)
(* not an object, parse_request fails with code invalid_payload and        *)
(* request_id null.                                                        *)
(***************************************************************************)
C7_NonObjectRejected ==
    /\ (pphase = "parsed" /\ IsJSONText(praw) /\ praw.toks[1].k # "{")
           => FailedWith(pres, NoneV, "invalid_payload")
    /\ (pphase = "decoded" /\ ~IsDict(preq))
           => FailedWith(pres, NoneV, "invalid_payload")

C7_Witness ==
    /\ pphase = "parsed"
    /\ IsJSONText(praw)
    /\ praw.toks[1].k = "["
    /\ FailedWith(pres, NoneV, "invalid_payload")

(***************************************************************************)
(* The JSON object a parsed input holds: the payload that was encoded, or  *)
(* the object a raw text decodes to.                                       *)
(***************************************************************************)
HasInputObject ==
    \/ pphase = "decoded" /\ IsDict(preq)
    \/ /\ pphase = "parsed"
       /\ json_loads(praw).exc = ""
       /\ IsDict(json_loads(praw).val)
InputObject == IF pphase = "decoded" THEN preq ELSE json_loads(praw).val
InputField(k) == DictGet(InputObject.m, k, NoneV)
ActionIsValid ==
    /\ DictHas(InputObject.m, "action")
    /\ InputField("action").t = "str"
    /\ InputField("action").s # ""

(***************************************************************************)
(* C8.  For any JSON object whose action is missing, is not a string or is *)
(* the empty string, parse_request fails with code invalid_action and the  *)
(* request_id field of the input (null when it has none), whatever params  *)
(* holds.                                                                  *)
(***************************************************************************)
C8_InvalidActionRejected ==
    (HasInputObject /\ ~ActionIsValid)
        => FailedWith(pres, InputField("request_id"), "invalid_action")

C8_Witness ==
    /\ HasInputObject
    /\ InputField("action") = IntV(5)
    /\ InputField("request_id") = StrV("r1")
    /\ InputField("params") = StrV("x")
    /\ FailedWith(pres, StrV("r1"), "invalid_action")

(***************************************************************************)
(* C9.  For any JSON object with a valid action, parse_request fails with  *)
(* code invalid_params and the input's request_id when params is present   *)
(* but not an object, and accepts the request with params the empty        *)
(* mapping when params is absent.                                          *)
(***************************************************************************)
C9_ParamsChecked ==
    (HasInputObject /\ ActionIsValid)
        => /\ (DictHas(InputObject.m, "params") /\ ~IsDict(InputField("params")))
                 => FailedWith(pres, InputField("request_id"), "invalid_params")
           /\ ~DictHas(InputObject.m, "params")
                 => /\ pres.kind = "request"
                    /\ pres.params = EmptyDict

C9_Witness ==
    /\ HasInputObject
    /\ ActionIsValid
    /\ ~DictHas(InputObject.m, "params")
    /\ InputField("request_id") = StrV("r1")
    /\ pres = Request(StrV("r1"), InputField("action"), EmptyDict)

(***************************************************************************)
(* C10.  For every valid Request (request_id a string or null, action a    *)
(* non-empty string, params a mapping), parse_request of the encoded       *)
(* request succeeds and returns the same request_id, action and params.    *)
(***************************************************************************)
C10_RoundTrip ==
    (pphase = "decoded" /\ IsValidRequest(preq))
        => pres = Request(DictGet(preq.m, "request_id", NoneV),
                          DictGet(preq.m, "action", NoneV),
                          DictGet(preq.m, "params", NoneV))

C10_Witness ==
    /\ pphase = "decoded"
    /\ IsValidRequest(preq)
    /\ pres.kind = "request"
    /\ pres.params = DictV(<< <<"a", IntV(1)>>, <<"b", FloatV(6)>> >>)
    /\ pres.request_id = StrV("r1")


(***************************************************************************)
(* server.py: one iteration of the loop of handle_connection on the        *)
(* message raw (lines 46-94), as a plan of what it does:                   *)
(*   fatal     the exception that leaves the loop ("" if none)             *)
(*   call      the registry function invoked ("" if none)                  *)
(*   reply     the dict passed to json.dumps and ws.send                   *)
(*   inTry     the send is the one of line 83, inside the try of line 72:  *)
(*             if it raises, `except Exception` logs and sends once more   *)
(*   unhandled logging.exception("Unhandled error ...") is called          *)
(***************************************************************************)
Plan(fatal, call, reply, inTry, unhandled) ==
    [fatal |-> fatal, call |-> call, reply |-> reply, inTry |-> inTry,
     unhandled |-> unhandled]

\* invoke without the `except Exception` of line 90: a failure that is no
\* TypeError leaves the loop.
invoke_no_catch_all(request_id, name, params) ==
    LET r == call_registered(name, params)
    IN  IF r.exc = ""
        THEN Plan("", name, make_response(request_id, "ok", r.val), TRUE, FALSE)
        ELSE IF r.exc = "TypeError"
        THEN Plan("", name,
                  to_dict(RPCError(request_id, "invalid_params", r.exc)),
                  FALSE, FALSE)
        ELSE Plan(r.exc, name, NoneV, FALSE, FALSE)

\* Lines 72-94: the call of the handler and the reply built from its outcome.
invoke(request_id, name, params) ==
    LET r == call_registered(name, params)
    IN  IF r.exc = ""
        THEN Plan("", name, make_response(request_id, "ok", r.val), TRUE, FALSE)
        ELSE IF r.exc = "TypeError"
        THEN Plan("", name,
                  to_dict(RPCError(request_id, "invalid_params", r.exc)),
                  FALSE, FALSE)
        ELSE Plan("", name,
                  to_dict(RPCError(request_id, "server_error", r.exc)),
                  FALSE, TRUE)

\* dispatch without the `if func is None` check of line 63: the name is
\* handed to the invocation as it is.
dispatch_no_lookup(request) ==
    invoke(request.request_id, request.action.s, request.params)

\* Lines 54-70: the registry lookup.
dispatch(request) ==
    IF request.action.s \notin FUNCTION_REGISTRY
    THEN Plan("", "",
              to_dict(RPCError(request.request_id, "unknown_action",
                               "Unknown action")),
              FALSE, FALSE)
    ELSE invoke(request.request_id, request.action.s, request.params)

\* Lines 46-52: parse_request, and its RPCError answered.
handle_message(raw) ==
    LET request == parse_request(raw)
    IN  IF request.kind = "raised"
        THEN Plan(request.code, "", NoneV, FALSE, FALSE)
        ELSE IF request.kind = "RPCError"
        THEN Plan("", "", to_dict(request), FALSE, FALSE)
        ELSE dispatch(request)

(***************************************************************************)
(* The peers.                                                              *)
(***************************************************************************)
\* A request as a peer writes it.
PeerRequest(request_id, action, params) ==
    json_dumps(ClientPayload(StrV(request_id), StrV(action), params))

\* The messages a peer sends: a request that is served, one whose handler
\* fails (int too large to convert to float), and one of each kind that
\* fails validation.
PeerMsgs ==
    {PeerRequest("r1", "echo", DictV(<< <<"message", StrV("hi")>> >>)),
     PeerRequest("r2", "multiply_numbers",
                 DictV(<< <<"a", HugeV>>, <<"b", FloatV(6)>> >>)),
     json_dumps(DictV(<< <<"request_id", StrV("r5")>> >>)),
     json_dumps(ClientPayload(StrV("r6"), StrV("echo"), ListV(<<>>))),
     TextMsg(<<P("{")>>),
     TextMsg(<<P("["), P("]")>>),
     BadBytesMsg}

\* The calls made through call_action: (action, params).
Calls ==
    {<<"echo", DictV(<< <<"message", StrV("hi")>> >>)>>,
     <<"add_numbers", DictV(<< <<"a", StrV("x")>>, <<"b", IntV(1)>> >>)>>,
     <<"bogus", EmptyDict>>}

\* The values uuid.uuid4() gives: each call takes one no other call has.
UUIDs == {"u1", "u2"}

\* The connections taken by peers that write frames of their own; every
\* connection can be taken by call_action.
PeerConns == {1}

\* A peer connects: the server starts a handle_connection task for it
\* (server.py lines 36-38).
Connect(c) ==
    /\ c \in PeerConns
    /\ cl[c] = "idle"
    /\ transport[c] = "none"
    /\ transport' = [transport EXCEPT ![c] = "open"]
    /\ pc' = [pc EXCEPT ![c] = "recv"]
    /\ events' = [events EXCEPT ![c] = @ \cup {"connected"}]
    /\ cl' = [cl EXCEPT ![c] = "peer"]
    /\ UNCHANGED <<inbox, outbox, cur, closedSends, lastCall, arrived, cid, cresp, nsent,
                   parseVars>>

\* A connected peer sends a message.
PeerSend(c, m) ==
    /\ cl[c] = "peer"
    /\ transport[c] = "open"
    /\ nsent[c] < MaxMsgs
    /\ inbox' = [inbox EXCEPT ![c] = Append(@, m)]
    /\ arrived' = [arrived EXCEPT ![c] = Append(@, m)]
    /\ nsent' = [nsent EXCEPT ![c] = @ + 1]
    /\ UNCHANGED <<transport, outbox, pc, cur, events, closedSends, lastCall,
                   cl, cid, cresp, parseVars>>

\* A connected peer closes its connection (a closing handshake).
PeerClose(c) ==
    /\ cl[c] = "peer"
    /\ transport[c] = "open"
    /\ transport' = [transport EXCEPT ![c] = "closed_ok"]
    /\ cl' = [cl EXCEPT ![c] = "gone"]
    /\ UNCHANGED <<inbox, outbox, pc, cur, events, closedSends, lastCall, arrived,
                   cid, cresp, nsent, parseVars>>

\* The transport of an open connection fails.
TransportFail(c) ==
    /\ transport[c] = "open"
    /\ transport' = [transport EXCEPT ![c] = "closed_err"]
    /\ UNCHANGED <<inbox, outbox, pc, cur, events, closedSends, lastCall, arrived,
                   cl, cid, cresp, nsent, parseVars>>

(***************************************************************************)
(* client.py call_action                                                   *)
(***************************************************************************)
\* Lines 46-59: a fresh request_id, the payload, the connection, the send.
call_action_send(c, request_id, action, params) ==
    /\ cl[c] = "idle"
    /\ transport[c] = "none"
    /\ request_id \notin {cid[d] : d \in Conns}
    /\ cid' = [cid EXCEPT ![c] = request_id]
    /\ transport' = [transport EXCEPT ![c] = "open"]
    /\ pc' = [pc EXCEPT ![c] = "recv"]
    /\ events' = [events EXCEPT ![c] = @ \cup {"connected"}]
    /\ inbox' = [inbox EXCEPT ![c] =
                    <<json_dumps(ClientPayload(StrV(request_id), StrV(action),
                                               params))>>]
    /\ arrived' = [arrived EXCEPT ![c] =
                      <<json_dumps(ClientPayload(StrV(request_id), StrV(action),
                                                 params))>>]
    /\ nsent' = [nsent EXCEPT ![c] = 1]
    /\ cl' = [cl EXCEPT ![c] = "waiting"]
    /\ UNCHANGED <<outbox, cur, closedSends, lastCall, cresp, parseVars>>

\* check_response without the comparison of lines 69-70.
check_response_unchecked(raw, request_id) ==
    LET d == json_loads(raw)
        response == d.val
    IN  IF d.exc # ""
        THEN [state |-> "decode_error", response |-> NoneV]
        ELSE IF ~IsDict(response)
        THEN [state |-> "attribute_error", response |-> NoneV]
        ELSE [state |-> "returned", response |-> response]

\* Lines 65-72: the response decoded and its request_id compared.  A
\* message that is no JSON text makes json.loads raise, and a JSON value
\* that is no object has no .get (AttributeError).
check_response(raw, request_id) ==
    LET d == json_loads(raw)
        response == d.val
    IN  IF d.exc # ""
        THEN [state |-> "decode_error", response |-> NoneV]
        ELSE IF ~IsDict(response)
        THEN [state |-> "attribute_error", response |-> NoneV]
        ELSE IF DictGet(response.m, "request_id", NoneV) # StrV(request_id)
        THEN [state |-> "mismatch", response |-> NoneV]
        ELSE [state |-> "returned", response |-> response]

\* Lines 62-72: ws.recv() gives the first message the server sent; the
\* connection is closed as the `async with` block is left.
call_action_recv(c) ==
    /\ cl[c] = "waiting"
    /\ transport[c] = "open"
    /\ outbox[c] # <<>>
    /\ LET r == check_response(outbox[c][1], cid[c])
       IN  /\ cl' = [cl EXCEPT ![c] = r.state]
           /\ cresp' = [cresp EXCEPT ![c] = r.response]
    /\ transport' = [transport EXCEPT ![c] = "closed_ok"]
    /\ UNCHANGED <<inbox, outbox, pc, cur, events, closedSends, lastCall, arrived,
                   cid, nsent, parseVars>>

\* call_action_timeout for a call_action that catches the timeout and
\* returns None.
call_action_timeout_swallowed(c) ==
    /\ cl[c] = "waiting"
    /\ transport[c] = "open"
    /\ outbox[c] = <<>>
    /\ cl' = [cl EXCEPT ![c] = "returned"]
    /\ transport' = [transport EXCEPT ![c] = "closed_ok"]
    /\ UNCHANGED <<inbox, outbox, pc, cur, events, closedSends, lastCall, arrived,
                   cid, cresp, nsent, parseVars>>

\* Line 62: no message within the timeout; asyncio.TimeoutError leaves
\* the `async with` block, which closes the connection.
call_action_timeout(c) ==
    /\ cl[c] = "waiting"
    /\ transport[c] = "open"
    /\ outbox[c] = <<>>
    /\ cl' = [cl EXCEPT ![c] = "timeout"]
    /\ transport' = [transport EXCEPT ![c] = "closed_ok"]
    /\ UNCHANGED <<inbox, outbox, pc, cur, events, closedSends, lastCall, arrived,
                   cid, cresp, nsent, parseVars>>

\* Line 62: the transport failed while waiting; ws.recv() raises
\* ConnectionClosed.
call_action_lost(c) ==
    /\ cl[c] = "waiting"
    /\ transport[c] = "closed_err"
    /\ cl' = [cl EXCEPT ![c] = "lost"]
    /\ UNCHANGED <<transport, inbox, outbox, pc, cur, events, closedSends,
                   lastCall, arrived, cid, cresp, nsent, parseVars>>

(***************************************************************************)
(* server.py handle_connection                                             *)
(***************************************************************************)
\* Recv yielding the newest message the transport holds.
Recv_newest_first(c) ==
    /\ pc[c] = "recv"
    /\ inbox[c] # <<>>
    /\ cur' = [cur EXCEPT ![c] = inbox[c][Len(inbox[c])]]
    /\ inbox' = [inbox EXCEPT ![c] = SubSeq(@, 1, Len(@) - 1)]
    /\ pc' = [pc EXCEPT ![c] = "dispatch"]
    /\ UNCHANGED <<transport, outbox, events, closedSends, lastCall, arrived, peerVars,
                   parseVars>>

\* Recv for a server that reads the next message while the previous one
\* is still being processed (a task per message).
Recv_while_processing(c) ==
    /\ pc[c] \in {"recv", "dispatch"}
    /\ inbox[c] # <<>>
    /\ cur' = [cur EXCEPT ![c] = Head(inbox[c])]
    /\ inbox' = [inbox EXCEPT ![c] = Tail(@)]
    /\ pc' = [pc EXCEPT ![c] = "dispatch"]
    /\ UNCHANGED <<transport, outbox, events, closedSends, lastCall, arrived, peerVars,
                   parseVars>>

\* Line 42: `async for raw in ws` yields the next message; messages the
\* transport already holds are yielded also after it has closed.
Recv(c) ==
    /\ pc[c] = "recv"
    /\ inbox[c] # <<>>
    /\ cur' = [cur EXCEPT ![c] = Head(inbox[c])]
    /\ inbox' = [inbox EXCEPT ![c] = Tail(@)]
    /\ pc' = [pc EXCEPT ![c] = "dispatch"]
    /\ UNCHANGED <<transport, outbox, events, closedSends, lastCall, arrived, peerVars,
                   parseVars>>

\* Lines 42, 96-98: no message is left and the transport has closed.  After
\* a closing handshake the iteration just ends (the iterator absorbs
\* ConnectionClosedOK); after a failure ConnectionClosedError reaches
\* `except websockets.ConnectionClosed`.
RecvClosed(c) ==
    /\ pc[c] = "recv"
    /\ inbox[c] = <<>>
    /\ transport[c] \in {"closed_ok", "closed_err"}
    /\ pc' = [pc EXCEPT ![c] = "done"]
    /\ events' = [events EXCEPT ![c] =
                     IF transport[c] = "closed_err"
                     THEN @ \cup {"disconnected"} ELSE @]
    /\ UNCHANGED <<transport, inbox, outbox, cur, closedSends, lastCall, arrived,
                   peerVars, parseVars>>

\* task_returned for a server that stops when a task ends on an error:
\* every open connection is closed.
task_returned_all(tr, c) ==
    [d \in DOMAIN tr |-> IF tr[d] = "open" THEN "closed_ok" ELSE tr[d]]

\* The transports once the task of connection c has returned with the
\* connection still open: the server closes that connection.
task_returned(tr, c) ==
    [tr EXCEPT ![c] = IF @ = "open" THEN "closed_ok" ELSE @]

\* Lines 46-101: the message is processed and answered.
Dispatch(c) ==
    /\ pc[c] = "dispatch"
    /\ LET h == handle_message(cur[c])
       IN  /\ lastCall' = [lastCall EXCEPT ![c] = h.call]
           /\ IF h.fatal # ""
              THEN \* `except Exception` of line 99
                   /\ pc' = [pc EXCEPT ![c] = "done"]
                   /\ events' = [events EXCEPT ![c] = @ \cup {"connection_error"}]
                   /\ transport' = task_returned(transport, c)
                   /\ UNCHANGED <<outbox, closedSends>>
              ELSE IF transport[c] = "open"
              THEN /\ outbox' = [outbox EXCEPT ![c] = Append(@, json_dumps(h.reply))]
                   /\ pc' = [pc EXCEPT ![c] = "recv"]
                   /\ events' = [events EXCEPT ![c] =
                                    IF h.unhandled THEN @ \cup {"unhandled"} ELSE @]
                   /\ UNCHANGED <<transport, closedSends>>
              ELSE \* ws.send raises ConnectionClosed; inside the try of line
                   \* 72 `except Exception` catches it, logs, and sends again
                   /\ closedSends' = [closedSends EXCEPT ![c] =
                                         @ + (IF h.inTry THEN 2 ELSE 1)]
                   /\ events' = [events EXCEPT ![c] =
                                    @ \cup {"disconnected"}
                                      \cup (IF h.unhandled \/ h.inTry
                                            THEN {"unhandled"} ELSE {})]
                   /\ pc' = [pc EXCEPT ![c] = "done"]
                   /\ UNCHANGED <<transport, outbox>>
    /\ UNCHANGED <<inbox, cur, arrived, peerVars, parseVars>>

Init ==
    /\ ConnInit
    /\ preq = NoneV
    /\ praw = NoMsg
    /\ pres = NoResult
    /\ pphase = "off"

Next ==
    \E c \in Conns :
        \/ Connect(c)
        \/ \E m \in PeerMsgs : PeerSend(c, m)
        \/ PeerClose(c)
        \/ TransportFail(c)
        \/ \E u \in UUIDs, call \in Calls :
               call_action_send(c, u, call[1], call[2])
        \/ call_action_recv(c)
        \/ call_action_timeout(c)
        \/ call_action_lost(c)
        \/ Recv(c)
        \/ RecvClosed(c)
        \/ Dispatch(c)

Spec == Init /\ [][Next]_vars

(***************************************************************************)
(* call_action on its own, against whatever serves SERVER_URL: a server    *)
(* that may send nothing, or any message.                                  *)
(***************************************************************************)
\* The messages the other end may send: a response with the request_id of
\* a call, with null, with a number, without request_id, an error without
\* request_id, a JSON value that is no object, and text that is no JSON.
Replies ==
    {json_dumps(make_response(StrV(u), "ok", IntV(30))) : u \in UUIDs}
      \cup {json_dumps(make_response(NoneV, "ok", IntV(30))),
            json_dumps(make_response(IntV(7), "ok", IntV(30))),
            json_dumps(DictV(<< <<"status", StrV("ok")>>, <<"result", IntV(30)>> >>)),
            json_dumps(to_dict(RPCError(NoneV, "invalid_json",
                                        "Payload is not valid JSON"))),
            TextMsg(<<P("["), P("]")>>),
            TextMsg(<<P("{")>>)}

\* The other end sends its first message to a connected call_action (the
\* only one ws.recv() of line 62 takes).
ServerReply(c, m) ==
    /\ cl[c] = "waiting"
    /\ transport[c] = "open"
    /\ outbox[c] = <<>>
    /\ outbox' = [outbox EXCEPT ![c] = Append(@, m)]
    /\ UNCHANGED <<transport, inbox, pc, cur, events, closedSends, lastCall,
                   arrived, peerVars, parseVars>>

CallNext ==
    \E c \in Conns :
        \/ \E u \in UUIDs, call \in Calls :
               call_action_send(c, u, call[1], call[2])
        \/ \E m \in Replies : ServerReply(c, m)
        \/ TransportFail(c)
        \/ call_action_recv(c)
        \/ call_action_timeout(c)
        \/ call_action_lost(c)

\* asyncio.wait_for ends a wait in which no message arrives: at the
\* deadline, or when ws.recv() fails.
CallFairness ==
    \A c \in Conns :
        WF_vars(call_action_timeout(c)) /\ WF_vars(call_action_lost(c))

CallSpec == Init /\ [][CallNext]_vars /\ CallFairness

(***************************************************************************)
(* The dispatcher on its own: one peer whose first message is drawn from   *)
(* every combination of an action and named arguments, followed by         *)
(* requests that are served.                                               *)
(***************************************************************************)
\* The action names requested: the three registered ones and one that is
\* not registered.
ServeActions == {"add_numbers", "multiply_numbers", "echo", "bogus"}

\* The argument values: 10, 20, 1.5, an int beyond the range of a double,
\* true, and a str.
ArgValues == {IntV(10), IntV(20), FloatV(6), HugeV, BoolV(TRUE), StrV("hi")}

\* An argument: absent (<<>>) or present with a value.
ArgOpts == {<<>>} \cup {<<v>> : v \in ArgValues}

\* Every params object over the names a, b and message.
ServeParams ==
    {DictV(Field("a", a) \o Field("b", b) \o Field("message", m)) :
        a \in ArgOpts, b \in ArgOpts, m \in ArgOpts}

ServeRequests ==
    {PeerRequest("r1", action, params) :
        action \in ServeActions, params \in ServeParams}

\* The first message of the peer, and the messages it sends after it.
ServeMsgs == ServeRequests \cup PeerMsgs
FollowUps == {PeerRequest("r2", "echo", DictV(<< <<"message", StrV("hi")>> >>))}

ServeNext ==
    \E c \in PeerConns :
        \/ Connect(c)
        \/ \E m \in ServeMsgs : nsent[c] = 0 /\ PeerSend(c, m)
        \/ \E m \in FollowUps : nsent[c] > 0 /\ PeerSend(c, m)
        \/ PeerClose(c)
        \/ TransportFail(c)
        \/ Recv(c)
        \/ RecvClosed(c)
        \/ Dispatch(c)

ServeSpec == Init /\ [][ServeNext]_vars


(***************************************************************************)
(* What the claims about the server read off a step and off a message.     *)
(***************************************************************************)
\* The step is the dispatch of cur[c] by the task of connection c.
DispatchStep(c) == pc[c] = "dispatch" /\ pc'[c] # "dispatch"

\* A message the server sent, decoded as its receiver decodes it.
Decoded(msg) == json_loads(msg).val
ResponseId(msg) == DictGet(Decoded(msg).m, "request_id", NoneV)
ResponseStatus(msg) == DictGet(Decoded(msg).m, "status", NoneV)
ErrorCode(msg) ==
    DictGet(DictGet(Decoded(msg).m, "error", EmptyDict).m, "code", NoneV)
IsError(msg, request_id, code) ==
    /\ ResponseStatus(msg) = StrV("error")
    /\ ErrorCode(msg) = StrV(code)
    /\ ResponseId(msg) = request_id

\* The message is a request for a registered handler, and the handler
\* raises a failure that is no TypeError.
HandlerFails(raw) ==
    LET q == parse_request(raw)
    IN  /\ q.kind = "request"
        /\ q.action.s \in FUNCTION_REGISTRY
        /\ call_registered(q.action.s, q.params).exc \notin {"", "TypeError"}

(***************************************************************************)
(* C1.  When a registered handler raises an unexpected (non-parameter)     *)
(* failure while the server processes a request on an open connection,     *)
(* the server sends an error response with code server_error and that      *)
(* request's request_id, the connection stays open, and the task is back   *)
(* at its read of the next message with the messages received after it     *)
(* still pending: they are read and answered in their turn.                *)
(***************************************************************************)
C1_HandlerFailureAnswered ==
    [][\A c \in Conns :
          (DispatchStep(c) /\ transport[c] = "open" /\ HandlerFails(cur[c]))
              => /\ Len(outbox'[c]) = Len(outbox[c]) + 1
                 /\ SubSeq(outbox'[c], 1, Len(outbox[c])) = outbox[c]
                 /\ IsError(outbox'[c][Len(outbox'[c])],
                            parse_request(cur[c]).request_id, "server_error")
                 /\ pc'[c] = "recv"
                 /\ transport'[c] = "open"
                 /\ inbox'[c] = inbox[c]]_vars

\* A server_error has been sent, and the message received after it has
\* been answered on the connection, which is open and being read.
C1_Witness ==
    \E c \in Conns :
        /\ Len(outbox[c]) = 2
        /\ IsError(outbox[c][1], StrV("r2"), "server_error")
        /\ ResponseStatus(outbox[c][2]) = StrV("ok")
        /\ ResponseId(outbox[c][2]) = StrV("r1")
        /\ pc[c] = "recv"
        /\ transport[c] = "open"

(***************************************************************************)
(* C2.  For every message received on an open connection that fails        *)
(* validation (malformed JSON, non-object payload, missing or invalid      *)
(* action, non-object params), handle_connection sends an error response,  *)
(* invokes no handler, does not close the connection and goes on to read   *)
(* the next message: the loop ends only on a transport closure or failure. *)
(***************************************************************************)
C2_ValidationFailureAnswered ==
    [][\A c \in Conns :
          (DispatchStep(c) /\ transport[c] = "open"
             /\ parse_request(cur[c]).kind # "request")
              => /\ Len(outbox'[c]) = Len(outbox[c]) + 1
                 /\ ResponseStatus(outbox'[c][Len(outbox'[c])]) = StrV("error")
                 /\ lastCall'[c] = ""
                 /\ pc'[c] = "recv"
                 /\ transport'[c] = "open"]_vars

(***************************************************************************)
(* C3.  When several clients call concurrently on independent connections  *)
(* with pairwise distinct request_ids, under every interleaving each       *)
(* client receives one response, whose request_id is the one that client   *)
(* sent: no response reaches a connection other than the one its request   *)
(* arrived on, none is sent twice, and call_action never finds a           *)
(* mismatch.                                                               *)
(***************************************************************************)
Calling(c) ==
    cl[c] \in {"waiting", "returned", "mismatch", "timeout", "lost",
               "decode_error", "attribute_error"}

C3_ResponsesCorrelated ==
    \A c \in Conns :
        Calling(c)
            => /\ cl[c] # "mismatch"
               /\ Len(outbox[c]) <= 1
               /\ \A i \in 1..Len(outbox[c]) : ResponseId(outbox[c][i]) = StrV(cid[c])
               /\ \A d \in Conns \ {c} : Calling(d) => cid[d] # cid[c]
               /\ cl[c] = "returned"
                     => /\ Len(outbox[c]) = 1
                        /\ cresp[c] = Decoded(outbox[c][1])
                        /\ DictGet(cresp[c].m, "request_id", NoneV) = StrV(cid[c])

\* Two calls with distinct request_ids have both returned.
C3_Witness ==
    /\ \A c \in Conns : cl[c] = "returned"
    /\ cid[1] # cid[2]
    /\ \A c \in Conns : DictGet(cresp[c].m, "request_id", NoneV) = StrV(cid[c])

(***************************************************************************)
(* C4.  If a connection closes while one of its requests is still being    *)
(* processed, the eventual response for that request is discarded: the     *)
(* server task does not crash and never attempts a send on the closed      *)
(* connection.                                                             *)
(***************************************************************************)
C4_ResponseDiscarded ==
    \A c \in Conns : closedSends[c] = 0

(***************************************************************************)
(* C5.  A failure or closure of one connection (transport error, malformed *)
(* messages, handler failure) leaves every other connection's state        *)
(* unchanged: the other connections remain open, with their pending        *)
(* messages and their tasks as they were.  Every step changes the state of *)
(* at most one connection.                                                 *)
(***************************************************************************)
ConnState(c) ==
    <<transport[c], inbox[c], outbox[c], pc[c], cur[c], events[c],
      closedSends[c], lastCall[c], arrived[c], cl[c], cid[c], cresp[c],
      nsent[c]>>

C5_ConnectionsIsolated ==
    [][\A c \in Conns : \A d \in Conns \ {c} :
          ConnState(c)' # ConnState(c) => ConnState(d)' = ConnState(d)]_vars

\* Connection 1 has ended on a connection-level error with a message left
\* unanswered, and the call on connection 2 has returned.
C5_Witness ==
    /\ pc[1] = "done"
    /\ "connection_error" \in events[1]
    /\ cl[2] = "returned"
    /\ transport[1] # "open"

(***************************************************************************)
(* What the claims about the dispatcher read off a request.                *)
(***************************************************************************)
\* The message is a validated request; its fields.
IsRequest(raw) == parse_request(raw).kind = "request"
ReqId(raw) == parse_request(raw).request_id
ReqAction(raw) == parse_request(raw).action.s
ReqParams(raw) == parse_request(raw).params
Arg(raw, k) == DictGet(ReqParams(raw).m, k, NoneV)

\* The last message the server sent on connection c after the step.
Sent(c) == outbox'[c][Len(outbox'[c])]
SentOne(c) ==
    /\ Len(outbox'[c]) = Len(outbox[c]) + 1
    /\ SubSeq(outbox'[c], 1, Len(outbox[c])) = outbox[c]
ResponseResult(msg) == DictGet(Decoded(msg).m, "result", NoneV)

\* The contract of the handlers, as their signatures and docstrings state
\* it: add_numbers and multiply_numbers take a and b, both numbers (int or
\* float; Python's bool is an int); echo takes message, a str.
ParamNames(name) == IF name = "echo" THEN {"message"} ELSE {"a", "b"}
WellTyped(name, v) == IF name = "echo" THEN v.t = "str"
                                       ELSE v.t \in {"bool", "int", "float"}
SatisfiesContract(name, params) ==
    /\ DictKeys(params.m) = ParamNames(name)
    /\ \A k \in ParamNames(name) : WellTyped(name, DictGet(params.m, k, NoneV))

\* The message is a request for a registered action.
ForRegistered(raw) == IsRequest(raw) /\ ReqAction(raw) \in FUNCTION_REGISTRY

(***************************************************************************)
(* C11.  For every validated request whose action is no key of the         *)
(* function registry, processed on an open connection, the server sends    *)
(* one error response whose code is unknown_action and whose request_id is *)
(* the request's, and invokes no handler for it.                           *)
(***************************************************************************)
C11_UnknownActionAnswered ==
    [][\A c \in Conns :
          (DispatchStep(c) /\ transport[c] = "open" /\ IsRequest(cur[c])
             /\ ReqAction(cur[c]) \notin {"add_numbers", "multiply_numbers", "echo"})
              => /\ SentOne(c)
                 /\ IsError(Sent(c), ReqId(cur[c]), "unknown_action")
                 /\ lastCall'[c] = ""]_vars

\* The request for "bogus" has been answered with unknown_action and its
\* request_id, and no handler was invoked.
C11_Witness ==
    \E c \in Conns :
        /\ Len(arrived[c]) = 1
        /\ ReqAction(arrived[c][1]) = "bogus"
        /\ Len(outbox[c]) = 1
        /\ IsError(outbox[c][1], StrV("r1"), "unknown_action")
        /\ lastCall[c] = ""
        /\ pc[c] = "recv"

(***************************************************************************)
(* C12.  For every request to a registered action whose params do not      *)
(* satisfy the handler's contract (a missing parameter, an unknown         *)
(* parameter name, a wrongly typed value), processed on an open            *)
(* connection, the server sends one error response with code               *)
(* invalid_params and the request's request_id, and the connection keeps   *)
(* serving: it stays open and the task is back at its read with the        *)
(* pending messages untouched.                                             *)
(***************************************************************************)
C12_ContractViolationAnswered ==
    [][\A c \in Conns :
          (DispatchStep(c) /\ transport[c] = "open" /\ ForRegistered(cur[c])
             /\ ~SatisfiesContract(ReqAction(cur[c]), ReqParams(cur[c])))
              => /\ SentOne(c)
                 /\ IsError(Sent(c), ReqId(cur[c]), "invalid_params")
                 /\ pc'[c] = "recv"
                 /\ transport'[c] = "open"
                 /\ inbox'[c] = inbox[c]]_vars

\* add_numbers with a str for a has been answered with invalid_params, and
\* the request after it has been served.
C12_Witness ==
    \E c \in Conns :
        /\ Len(arrived[c]) = 2
        /\ ReqAction(arrived[c][1]) = "add_numbers"
        /\ DictKeys(ReqParams(arrived[c][1]).m) = {"a", "b"}
        /\ Arg(arrived[c][1], "a") = StrV("hi")
        /\ Arg(arrived[c][1], "b") = IntV(10)
        /\ Len(outbox[c]) = 2
        /\ IsError(outbox[c][1], StrV("r1"), "invalid_params")
        /\ ResponseStatus(outbox[c][2]) = StrV("ok")
        /\ ResponseId(outbox[c][2]) = StrV("r2")

(***************************************************************************)
(* C13.  The value a request to a registered action is answered with when  *)
(* its handler returns: a + b for add_numbers, a * b for multiply_numbers, *)
(* the message for echo.                                                   *)
(***************************************************************************)
Expected(raw) ==
    CASE ReqAction(raw) = "add_numbers" -> py_add(Arg(raw, "a"), Arg(raw, "b"))
      [] ReqAction(raw) = "multiply_numbers" -> py_mul(Arg(raw, "a"), Arg(raw, "b"))
      [] OTHER -> Returns(Arg(raw, "message"))

AnsweredOk(c) ==
    /\ SentOne(c)
    /\ ResponseStatus(Sent(c)) = StrV("ok")
    /\ ResponseId(Sent(c)) = ReqId(cur[c])
    /\ DictHas(Decoded(Sent(c)).m, "result")
    /\ Expected(cur[c]).exc = ""
    /\ ResponseResult(Sent(c)) = Expected(cur[c]).val

\* One argument is an int beyond the range of a double and the other a
\* float: a + b and a * b convert the int and raise OverflowError.
Overflows(raw) ==
    /\ ReqAction(raw) \in {"add_numbers", "multiply_numbers"}
    /\ \/ IsHuge(Arg(raw, "a")) /\ Arg(raw, "b").t = "float"
       \/ IsHuge(Arg(raw, "b")) /\ Arg(raw, "a").t = "float"

(***************************************************************************)
(* C13 as claimed.  For every request to a registered action whose params  *)
(* satisfy the handler's contract, processed on an open connection, the    *)
(* server responds with status ok, the request's request_id, and result    *)
(* equal to the handler's return value: a+b for add_numbers, a*b for       *)
(* multiply_numbers, the unchanged message for echo.                       *)
(***************************************************************************)
C13_ValidRequestServed ==
    [][\A c \in Conns :
          (DispatchStep(c) /\ transport[c] = "open" /\ ForRegistered(cur[c])
             /\ SatisfiesContract(ReqAction(cur[c]), ReqParams(cur[c])))
              => AnsweredOk(c)]_vars

(***************************************************************************)
(* C13 as amended.  For every request to a registered action whose params  *)
(* satisfy the handler's contract, except a request to add_numbers or      *)
(* multiply_numbers with an int beyond the range of a double for one       *)
(* argument and a float for the other, the server responds with status     *)
(* ok, the request's request_id, and result equal to a+b, a*b or the       *)
(* unchanged message.                                                      *)
(***************************************************************************)
C13_ValidRequestServedUnlessOverflow ==
    [][\A c \in Conns :
          (DispatchStep(c) /\ transport[c] = "open" /\ ForRegistered(cur[c])
             /\ SatisfiesContract(ReqAction(cur[c]), ReqParams(cur[c]))
             /\ ~Overflows(cur[c]))
              => AnsweredOk(c)]_vars

\* add_numbers with a = 10 and b = 20 has been answered with ok and 30.
C13_Witness ==
    \E c \in Conns :
        /\ Len(arrived[c]) >= 1
        /\ ReqAction(arrived[c][1]) = "add_numbers"
        /\ Arg(arrived[c][1], "a") = IntV(10)
        /\ Arg(arrived[c][1], "b") = IntV(20)
        /\ Len(outbox[c]) >= 1
        /\ ResponseStatus(outbox[c][1]) = StrV("ok")
        /\ ResponseId(outbox[c][1]) = StrV("r1")
        /\ ResponseResult(outbox[c][1]) = IntV(30)

(***************************************************************************)
(* C14.  Every response message the server sends is a JSON object whose    *)
(* status is ok or error; it has a result field if and only if its status  *)
(* is ok, and an error field, an object holding a code and a message, if   *)
(* and only if its status is error.                                        *)
(***************************************************************************)
WellFormedResponse(msg) ==
    /\ json_loads(msg).exc = ""
    /\ IsDict(Decoded(msg))
    /\ ResponseStatus(msg) \in {StrV("ok"), StrV("error")}
    /\ DictHas(Decoded(msg).m, "result") <=> ResponseStatus(msg) = StrV("ok")
    /\ DictHas(Decoded(msg).m, "error") <=> ResponseStatus(msg) = StrV("error")
    /\ DictHas(Decoded(msg).m, "error")
          => LET e == DictGet(Decoded(msg).m, "error", NoneV)
             IN  /\ IsDict(e)
                 /\ {"code", "message"} \subseteq DictKeys(e.m)
                 /\ IsStr(DictGet(e.m, "code", NoneV))
                 /\ IsStr(DictGet(e.m, "message", NoneV))

C14_ResponsesWellFormed ==
    \A c \in Conns : \A i \in 1..Len(outbox[c]) : WellFormedResponse(outbox[c][i])

\* An error response and an ok response have been sent on one connection.
C14_Witness ==
    \E c \in Conns :
        /\ Len(outbox[c]) = 2
        /\ ResponseStatus(outbox[c][1]) = StrV("error")
        /\ ErrorCode(outbox[c][1]) = StrV("invalid_json")
        /\ ResponseStatus(outbox[c][2]) = StrV("ok")
        /\ DictHas(Decoded(outbox[c][2]).m, "result")

(***************************************************************************)
(* C15.  If no response has arrived when the timeout expires after         *)
(* call_action has sent its request, call_action fails with the timeout    *)
(* condition, which is neither a returned response (so no protocol error   *)
(* response) nor the correlation mismatch; it returns no response then,    *)
(* and it never waits forever: a call that is waiting stops waiting unless *)
(* a message arrives.                                                      *)
(***************************************************************************)
C15_TimeoutReported ==
    /\ [][\A c \in Conns :
             (cl[c] = "waiting" /\ transport[c] = "open" /\ outbox[c] = <<>>
                /\ cl'[c] # "waiting")
                 => /\ cl'[c] = "timeout"
                    /\ cresp'[c] = NoneV
                    /\ transport'[c] # "open"]_vars
    /\ [](\A c \in Conns : cl[c] = "timeout" => cresp[c] = NoneV)
    /\ \A c \in Conns :
          (cl[c] = "waiting") ~> (cl[c] # "waiting" \/ outbox[c] # <<>>)

\* A call has timed out with nothing received and nothing returned.
C15_Witness ==
    \E c \in Conns :
        /\ cl[c] = "timeout"
        /\ outbox[c] = <<>>
        /\ cresp[c] = NoneV
        /\ cid[c] # ""

(***************************************************************************)
(* C16.  call_action returns a response only if the response's request_id  *)
(* equals the request_id it generated and sent, and then returns that      *)
(* response; a received response with any other request_id (null, absent,  *)
(* another call's, a number) makes it fail with the correlation mismatch   *)
(* and return nothing.                                                     *)
(***************************************************************************)
Receives(c) == cl[c] = "waiting" /\ cl'[c] \notin {"waiting", "timeout", "lost"}
IsResponse(msg) == json_loads(msg).exc = "" /\ IsDict(Decoded(msg))

C16_MismatchDetected ==
    [][\A c \in Conns :
          Receives(c)
              => /\ outbox[c] # <<>>
                 /\ cl'[c] = "returned"
                       => /\ IsResponse(outbox[c][1])
                          /\ ResponseId(outbox[c][1]) = StrV(cid[c])
                          /\ cresp'[c] = Decoded(outbox[c][1])
                 /\ (IsResponse(outbox[c][1])
                       /\ ResponseId(outbox[c][1]) # StrV(cid[c]))
                       => /\ cl'[c] = "mismatch"
                          /\ cresp'[c] = NoneV]_vars

\* One call has failed on a response whose request_id is null, another on
\* a response that carries the other call's request_id.
C16_Witness ==
    /\ cl[1] = "mismatch"
    /\ DictHas(Decoded(outbox[1][1]).m, "request_id")
    /\ ResponseId(outbox[1][1]) = NoneV
    /\ cl[2] = "mismatch"
    /\ ResponseId(outbox[2][1]) = StrV(cid[1])
    /\ cid[1] # cid[2]

(***************************************************************************)
(* C17.  On a single connection (every registered handler is synchronous)  *)
(* the responses are written in the order in which their requests          *)
(* arrived: the i-th message sent is the answer to the i-th message that   *)
(* arrived.                                                                *)
(***************************************************************************)
AnswerTo(raw) == json_dumps(handle_message(raw).reply)

C17_ResponsesInArrivalOrder ==
    \A c \in Conns :
        /\ Len(outbox[c]) <= Len(arrived[c])
        /\ \A i \in 1..Len(outbox[c]) :
              /\ handle_message(arrived[c][i]).fatal = ""
              /\ outbox[c][i] = AnswerTo(arrived[c][i])

\* A message without action and then a request for echo have arrived, and
\* have been answered in that order.
C17_Witness ==
    \E c \in Conns :
        /\ Len(arrived[c]) = 2
        /\ IsRequest(arrived[c][2])
        /\ ~IsRequest(arrived[c][1])
        /\ ReqId(arrived[c][2]) = StrV("r1")
        /\ Len(outbox[c]) = 2
        /\ IsError(outbox[c][1], StrV("r5"), "invalid_action")
        /\ ResponseId(outbox[c][2]) = StrV("r1")
        /\ ResponseStatus(outbox[c][2]) = StrV("ok")

(***************************************************************************)
(* C18.  When the transport of a connection closes, that connection's      *)
(* handler task ends (Closed) having emitted a disconnect event, without   *)
(* writing further and without treating the closure as an error.           *)
(***************************************************************************)
ErrorEvents == {"unhandled", "connection_error"}

C18_ClosureHandled ==
    [][\A c \in Conns :
          (pc[c] # "done" /\ pc'[c] = "done" /\ transport[c] # "open")
              => /\ "disconnected" \in events'[c]
                 /\ events'[c] \cap ErrorEvents = events[c] \cap ErrorEvents
                 /\ closedSends'[c] = closedSends[c]]_vars

(***************************************************************************)
(* C19.  While a connection stays open, the server sends exactly one       *)
(* message for each message it receives on that connection (never zero,    *)
(* never two), and when the received message decodes to a JSON object the  *)
(* sent message's request_id equals that object's request_id field (null   *)
(* when the object has none).                                              *)
(***************************************************************************)
DecodesToObject(raw) == json_loads(raw).exc = "" /\ IsDict(Decoded(raw))

C19_OneResponsePerMessage ==
    [][\A c \in Conns :
          (DispatchStep(c) /\ transport[c] = "open")
              => /\ SentOne(c)
                 /\ DecodesToObject(cur[c])
                       => ResponseId(Sent(c))
                            = DictGet(Decoded(cur[c]).m, "request_id", NoneV)]_vars

(***************************************************************************)
(* C20.  On one connection at most one request is being processed at any   *)
(* time: the server reads the next message only after the previous one has *)
(* been answered, so the responses of a connection are in arrival order;   *)
(* a request being processed (a suspended handler or send) delays the      *)
(* later messages of its connection, and does not delay the reading of     *)
(* messages on other connections.                                          *)
(***************************************************************************)
\* The messages the task of connection c has read, and those among them
\* that have not been answered.
Read(c) == Len(arrived[c]) - Len(inbox[c])
Unanswered(c) == Read(c) - Len(outbox[c])

C20_OneRequestAtATime ==
    \A c \in Conns :
        /\ Unanswered(c) \in {0, 1}
        /\ pc[c] = "recv" => Unanswered(c) = 0
        /\ pc[c] = "dispatch" => Unanswered(c) = 1 /\ ~ENABLED Recv(c)
        /\ \A i \in 1..Len(outbox[c]) :
              DecodesToObject(arrived[c][i])
                  => ResponseId(outbox[c][i])
                       = DictGet(Decoded(arrived[c][i]).m, "request_id", NoneV)
        /\ \A d \in Conns \ {c} :
              (pc[c] = "dispatch" /\ pc[d] = "recv" /\ inbox[d] # <<>>)
                  => ENABLED Recv(d)

\* The task of connection 1 is processing a request with a later message
\* waiting behind it, and meanwhile the call on connection 2, sent after
\* that request was read, has been answered and has returned.
C20_Witness ==
    /\ pc[1] = "dispatch"
    /\ inbox[1] # <<>>
    /\ outbox[1] = <<>>
    /\ cl[2] = "returned"
    /\ Len(outbox[2]) = 1

=============================================================================
